---- MODULE Spec2Model ----
(***************************************************************************)
(* Model of gerbil::gpu::HasherTask<K> (include/gerbil/GpuHasher.h): the   *)
(* per-device hasher threads that drain a private k-mer bundle queue into  *)
(* a private counting table, and the main thread that spawns and joins     *)
(* them and reads the aggregate statistics.                                *)
(*                                                                         *)
(* KmerCountingHashTable, KmerDistributer, TempFile and SyncSwapQueueMPSC  *)
(* are declared in other headers; their operations are modelled from the   *)
(* written specification (sections 3, 4.3 and 6) and are marked so below.  *)
(*                                                                         *)
(* The uint64_t counters stay far below 2^64 within the bounds, so their   *)
(* arithmetic is written without the modulus.                              *)
(*                                                                         *)
(* The header compiles in two ways: with GPU defined, hash() spawns the    *)
(* threads; without, it throws. The variable gpu is the build.             *)
(***************************************************************************)
EXTENDS Integers, Sequences, FiniteSets

\* ------------------------------------------------------------------ bounds
\* Number of bundles the upstream producers deliver in total.
MaxBatches == 2
\* Distinct k-mers 1..NumKMers.
NumKMers == 2
\* Temporary files 0..NumFiles-1.
NumFiles == 2
\* A timed section takes 0..MaxDur microseconds.
MaxDur == 1
\* approximateUniqueKmers returns a value in 0..MaxEstimate.
MaxEstimate == 1
\* Split ratios are the fractions n/RatioDen, n in 1..RatioDen.
RatioDen == 2
\* Number of gpu hasher threads of the multi-device specification.
MaxDevices == 2
\* _thresholdMin is drawn from 1..MaxThreshold.
MaxThreshold == 2

\* --------------------------------------------------------------- constants
\* uint32_t curTempFileId = -1: the value 2^32 - 1, which no temp file has as
\* its id. It is written as in the source, TLC's integers being 32 bits wide.
NoFile == -1

KMers == 1 .. NumKMers
Files == 0 .. (NumFiles - 1)
Devices == 0 .. (MaxDevices - 1)
Ratios == {<<n, RatioDen>> : n \in 1 .. RatioDen}
\* A bundle: the id of the temp file it belongs to and its k-mers (one k-mer
\* per bundle; a k-mer is counted several times by several bundles).
Bundles == [file : Files, kmers : {<<k>> : k \in KMers}]
NoBundle == [file |-> NoFile, kmers |-> << >>]
\* value of a block-local variable outside its block
NoRatio == <<0, 1>>

VARIABLES
    gpu,             \* the build has GPU support (#ifdef GPU)
    hardware,        \* number of gpu devices the machine has
    numThreads,      \* _numThreads
    thresholdMin,    \* _thresholdMin
    kMerQueues,      \* kMerQueues[devID]: the bundles waiting in the input queue
    finalized,       \* finalized[devID]: the producer has closed the queue
    budget,          \* bundles the producers may still deliver
    pc,              \* pc[devID]: position of hasher thread devID
    kmb,             \* the working bundle of each thread
    curTempFileId,   \* current file id of each thread
    binKMers,        \* table->getKMersNumber() at the last init
    duration,        \* accumulated microseconds of the current window
    uniqueKmers,     \* value of _tempFiles[curTempFileId].approximateUniqueKmers(0.9)
    ratio,           \* float ratio: the split ratio of the pending init
    newSize,         \* uint64_t newSize: size computed for the pending init
    tables,          \* tables[devID]: the thread-own hash table
    output,          \* output[devID]: bundles pushed by table devID to _kmcSyncSwapQueue
    discarded,       \* discarded[devID]: occurrences dropped as below threshold
    throughput,      \* distributor: last throughput reported per device
    divided,         \* whether the last throughput computation divided
    log,             \* log[devID]: the calls thread devID has made, in order
    main,            \* position of the thread that constructs the task and calls hash(),
                     \* join() and the accessors
    idx,             \* loop index of hash() / join()
    kMersNumberAgg,  \* _kMersNumber
    uKMersNumberAgg, \* _uKMersNumber
    btUKMersNumberAgg, \* _btUKMersNumber
    reads            \* the accessor values read after join() returned

vars == <<gpu, hardware, numThreads, thresholdMin, kMerQueues, finalized, budget, pc, kmb,
          curTempFileId, binKMers, duration, uniqueKmers, ratio, newSize, tables, output,
          discarded, throughput, divided, log, main, idx, kMersNumberAgg, uKMersNumberAgg,
          btUKMersNumberAgg, reads>>

config == <<gpu, hardware, numThreads, thresholdMin>>
queueVars == <<kMerQueues, finalized, budget>>
blockVars == <<uniqueKmers, ratio, newSize>>
localVars == <<kmb, curTempFileId, binKMers, duration, blockVars>>
tableVars == <<tables, output, discarded>>
distVars == <<throughput, divided>>
mainVars == <<main, idx, reads>>
aggVars == <<kMersNumberAgg, uKMersNumberAgg, btUKMersNumberAgg>>

Threads == 0 .. (numThreads - 1)

\* ------------------------------------------------- KmerCountingHashTable
EmptyCounts == [k \in KMers |-> 0]

\* The smallest capacity a table takes; a smaller request is raised to it.
MinCapacity == 1

\* A table as constructed: nothing counted, no capacity set by init yet.
NewTable == [counts |-> EmptyCounts, capacity |-> 0, kMersNumber |-> 0,
             uKMersNumber |-> 0, btUKMersNumber |-> 0]

Occurrences(s, k) == Cardinality({i \in 1 .. Len(s) : s[i] = k})

\* table->addBundle(kmb): every k-mer of the bundle is counted once.
TableAddBundle(t, b) ==
    [t EXCEPT !.counts = [k \in KMers |-> @[k] + Occurrences(b.kmers, k)],
              !.kMersNumber = @ + Len(b.kmers)]

\* The entries extractAndClear emits: the k-mers counted at least T times.
ResultEntries(t, T) == {<<k, t.counts[k]>> : k \in {x \in KMers : t.counts[x] >= T}}

BelowThreshold(t, T) == {k \in KMers : t.counts[k] > 0 /\ t.counts[k] < T}

RECURSIVE SumCounts(_, _)
SumCounts(c, S) ==
    IF S = {} THEN 0
    ELSE LET k == CHOOSE x \in S : TRUE IN c[k] + SumCounts(c, S \ {k})

\* table->extractAndClear(): the table is empty afterwards.
TableExtractAndClear(t, T) ==
    [t EXCEPT !.counts = EmptyCounts,
              !.uKMersNumber = @ + Cardinality({k \in KMers : t.counts[k] > 0}),
              !.btUKMersNumber = @ + Cardinality(BelowThreshold(t, T))]

\* table->init(newSize): the table is reset, whatever it held is gone, and its
\* capacity is the requested size, raised to the minimum.
TableInit(t, size) ==
    [t EXCEPT !.counts = EmptyCounts,
              !.capacity = IF size < MinCapacity THEN MinCapacity ELSE size]

\* ---------------------------------------------------------------- TempFile
\* _tempFiles[f].approximateUniqueKmers(0.9): the values the estimator of file f
\* may return, any non-negative integer up to the bound.
ApproximateUniqueKmers(f) == 0 .. MaxEstimate

\* --------------------------------------------------------- KmerDistributer
\* distributor->getSplitRatio(true, devID, fileId): the values it may return,
\* any fraction in (0,1].
SplitRatio(d, f) == Ratios

\* ------------------------------------------------------ worker arithmetic
\* Mutant: every thread takes the input queue of device 0.
QueueOf_First(devID) == 0

\* kMerQueue = kMerQueues[devID]: the thread-own input queue
QueueOf(devID) == devID

\* Mutant: every thread takes the table of device 0.
TableOf_First(devID) == 0

\* table = tables[devID]: the thread own hash table
TableOf(devID) == devID

\* Mutant: the current file id starts at the id of the first temp file.
InitialFileId_First == CHOOSE f \in Files : \A g \in Files : f <= g

\* uint32_t curTempFileId = -1
InitialFileId == NoFile

\* Mutant: the current file id is never updated.
NewFileId_Stale(cur, f) == cur

\* curTempFileId = kmb->getTempFileId()
NewFileId(cur, f) == f

\* Mutant: the k-mer counter of the window is not reset.
WindowBaseline_Keep(old, total) == old

\* binKMers = table->getKMersNumber()
WindowBaseline(old, total) == total

\* Mutants of the boundary test: the first bundle is not a boundary; every
\* bundle is one; none is.
IsBoundary_SkipFirst(cur, f) == cur # f /\ cur # NoFile

IsBoundary_Always(cur, f) == TRUE

IsBoundary_Never(cur, f) == FALSE

\* curTempFileId != kmb->getTempFileId()
IsBoundary(cur, f) == cur # f

\* duration.count() != 0
Divides(dur) == dur # 0

\* Mutant: a window of no duration reports what it processed.
Throughput_NoZero(processed, dur) == IF Divides(dur) THEN processed \div dur ELSE processed

\* duration.count() != 0 ? processedKMers / duration.count() : 0
Throughput(processed, dur) == IF Divides(dur) THEN processed \div dur ELSE 0

\* Mutant: the split ratio is left out of the new size.
NewSize_NoRatio(est, r) == est

\* uint64_t newSize = approximateUniqueKmers(0.9) * ratio, the product truncated
\* (ratio = r[1]/r[2]; for the values of the model the float product truncates
\* to the same integer as the exact one)
NewSize(est, r) == (est * r[1]) \div r[2]

\* ------------------------------------------------------------------- Init
InitCommon(n) ==
    /\ kMerQueues = [d \in Devices |-> << >>]
    /\ finalized = [d \in Devices |-> FALSE]
    /\ budget = n
    /\ pc = [d \in Devices |-> "null"]
    /\ kmb = [d \in Devices |-> NoBundle]
    /\ curTempFileId = [d \in Devices |-> InitialFileId]
    /\ binKMers = [d \in Devices |-> 0]
    /\ duration = [d \in Devices |-> 0]
    /\ uniqueKmers = [d \in Devices |-> 0]
    /\ ratio = [d \in Devices |-> NoRatio]
    /\ newSize = [d \in Devices |-> 0]
    /\ tables = [d \in Devices |-> NewTable]
    /\ output = [d \in Devices |-> << >>]
    /\ discarded = [d \in Devices |-> 0]
    /\ throughput = [d \in Devices |-> 0]
    /\ divided = [d \in Devices |-> FALSE]
    /\ log = [d \in Devices |-> << >>]
    /\ idx = 0
    /\ kMersNumberAgg = 0
    /\ uKMersNumberAgg = 0
    /\ btUKMersNumberAgg = 0
    /\ reads = {}

\* A task constructed in a build with GPU support on a machine that has the
\* devices it was asked to use.
Constructed ==
    /\ gpu = TRUE
    /\ hardware = numThreads
    /\ main = "hash"

\* One device.
Init ==
    /\ numThreads = 1
    /\ thresholdMin \in 1 .. MaxThreshold
    /\ Constructed
    /\ InitCommon(MaxBatches)

\* Several devices: hash() spawns one thread per device.
InitMulti ==
    /\ numThreads = MaxDevices
    /\ thresholdMin \in 1 .. MaxThreshold
    /\ Constructed
    /\ InitCommon(MaxBatches)

\* Before construction, in either build, on a machine that has the one device
\* asked for or lacks it.
InitConfig ==
    /\ numThreads = 1
    /\ thresholdMin \in 1 .. MaxThreshold
    /\ gpu \in BOOLEAN
    /\ hardware \in {numThreads - 1, numThreads}
    /\ main = "new"
    /\ InitCommon(MaxBatches)

\* Scenario A: one device, threshold 2, three bundles of file 0 then two of file 1.
ScenarioA == <<0, 0, 0, 1, 1>>

InitA ==
    /\ numThreads = 1
    /\ thresholdMin = 2
    /\ Constructed
    /\ InitCommon(Len(ScenarioA))

\* ------------------------------------------------------------- producers
\* An upstream producer pushes a bundle into the input queue of device d.
Push(d) ==
    /\ ~finalized[d]
    /\ budget > 0
    /\ \E b \in Bundles : kMerQueues' = [kMerQueues EXCEPT ![d] = Append(@, b)]
    /\ budget' = budget - 1
    /\ UNCHANGED <<config, finalized, pc, localVars, tableVars, distVars, log, mainVars,
                   aggVars>>

\* Scenario A: the producer pushes the next bundle of the scenario, with any k-mer.
PushA(d) ==
    /\ ~finalized[d]
    /\ budget > 0
    /\ \E b \in Bundles :
          /\ b.file = ScenarioA[Len(ScenarioA) - budget + 1]
          /\ kMerQueues' = [kMerQueues EXCEPT ![d] = Append(@, b)]
    /\ budget' = budget - 1
    /\ UNCHANGED <<config, finalized, pc, localVars, tableVars, distVars, log, mainVars,
                   aggVars>>

\* Scenario A: the producer closes the queue after the last bundle.
FinalizeA(d) ==
    /\ budget = 0
    /\ ~finalized[d]
    /\ finalized' = [finalized EXCEPT ![d] = TRUE]
    /\ UNCHANGED <<config, kMerQueues, budget, pc, localVars, tableVars, distVars, log,
                   mainVars, aggVars>>

\* The producer closes the input queue of device d.
Finalize(d) ==
    /\ ~finalized[d]
    /\ finalized' = [finalized EXCEPT ![d] = TRUE]
    /\ UNCHANGED <<config, kMerQueues, budget, pc, localVars, tableVars, distVars, log,
                   mainVars, aggVars>>

\* ----------------------------------------------------------- main thread
\* new KmerCountingHashTable<K>(i, ...) succeeds for every i < numThreads: the
\* machine has the devices asked for.
DevicesAvailable == numThreads <= hardware

\* HasherTask(...): with GPU support one table per device is created, which
\* fails if a device is missing; without, nothing is created and nothing fails.
Construct ==
    /\ main = "new"
    /\ main' = IF gpu /\ ~DevicesAvailable THEN "error" ELSE "hash"
    /\ UNCHANGED <<config, queueVars, pc, localVars, tableVars, distVars, log, idx, reads,
                   aggVars>>

\* Mutant: hash() spawns its threads in a build without GPU support too.
Callable_Always == TRUE

\* #ifdef GPU in hash(): the body of the spawn loop creates a thread
Callable == gpu

\* hash() without GPU support: the first iteration of the loop throws
\* std::runtime_error("... Method not callable without GPU support!").
HashThrow ==
    /\ main = "hash"
    /\ idx < numThreads
    /\ ~Callable
    /\ main' = "error"
    /\ UNCHANGED <<config, queueVars, pc, localVars, tableVars, distVars, log, idx, reads,
                   aggVars>>

\* hash(): one iteration of the spawn loop.
Spawn ==
    /\ main = "hash"
    /\ idx < numThreads
    /\ Callable
    /\ pc' = [pc EXCEPT ![idx] = "pop"]
    /\ idx' = IF idx + 1 = numThreads THEN 0 ELSE idx + 1
    /\ main' = IF idx + 1 = numThreads THEN "join" ELSE "hash"
    /\ UNCHANGED <<config, queueVars, localVars, tableVars, distVars, log, reads, aggVars>>

\* Mutant: join() returns for a thread that has started.
ThreadEnded_Started(i) == pc[i] # "null"

\* the thread function of _threads[i] has returned
ThreadEnded(i) == pc[i] = "done"

\* join(): _threads[i]->join() returns once thread i has finished.
Join ==
    /\ main = "join"
    /\ ThreadEnded(idx)
    /\ idx' = IF idx + 1 = numThreads THEN 0 ELSE idx + 1
    /\ main' = IF idx + 1 = numThreads THEN "joined" ELSE "join"
    /\ UNCHANGED <<config, queueVars, pc, localVars, tableVars, distVars, log, reads,
                   aggVars>>

\* getKMersNumber(), getUKMersNumber(), getBtUKMersNumber() after join().
ReadStats ==
    /\ main = "joined"
    /\ reads' = reads \cup {<<kMersNumberAgg, uKMersNumberAgg, btUKMersNumberAgg>>}
    /\ UNCHANGED <<config, queueVars, pc, localVars, tableVars, distVars, log, main, idx,
                   aggVars>>

\* --------------------------------------------------------- hasher thread
Logged(d, e) == log' = [log EXCEPT ![d] = Append(@, e)]

\* Mutant: at a file boundary the table is resized without being extracted.
AfterPop_NoExtract(cur, f) == IF IsBoundary(cur, f) THEN "ratio" ELSE "add"

\* where the thread goes after a successful swapPop
AfterPop(cur, f) == IF IsBoundary(cur, f) THEN "extract" ELSE "add"

\* Mutant: the thread hangs when swapPop fails.
AfterEos_Hang == "hang"

\* where the thread goes when swapPop fails
AfterEos == "final"

\* while (kMerQueue->swapPop(kmb)): blocks on an empty open queue, fails on an
\* empty closed one.
SwapPop(d) ==
    /\ pc[d] = "pop"
    /\ \/ /\ kMerQueues[QueueOf(d)] # << >>
          /\ kmb' = [kmb EXCEPT ![d] = Head(kMerQueues[QueueOf(d)])]
          /\ kMerQueues' = [kMerQueues EXCEPT ![QueueOf(d)] = Tail(@)]
          /\ pc' = [pc EXCEPT
                ![d] = AfterPop(curTempFileId[d], Head(kMerQueues[QueueOf(d)]).file)]
          /\ Logged(d, <<"pop", Head(kMerQueues[QueueOf(d)]), curTempFileId[d]>>)
       \/ /\ kMerQueues[QueueOf(d)] = << >>
          /\ finalized[QueueOf(d)]
          /\ pc' = [pc EXCEPT ![d] = AfterEos]
          /\ Logged(d, <<"eos">>)
          /\ UNCHANGED <<kmb, kMerQueues>>
    /\ UNCHANGED <<config, finalized, budget, curTempFileId, binKMers, duration, blockVars,
                   tableVars, distVars, mainVars, aggVars>>

\* the effect of extractAndClear on the table, the output queue and the discards
Extracted(d) ==
    LET t == TableOf(d) IN
    /\ tables' = [tables EXCEPT ![t] = TableExtractAndClear(@, thresholdMin)]
    /\ output' = [output EXCEPT ![t] = Append(@, ResultEntries(tables[t], thresholdMin))]
    /\ discarded' = [discarded EXCEPT
           ![t] = @ + SumCounts(tables[t].counts, BelowThreshold(tables[t], thresholdMin))]

\* Mutant: the throughput of the window is not reported.
AfterExtract_NoReport == "ratio"

\* where the thread goes after the extraction at a file boundary
AfterExtract == "report"

\* table->extractAndClear() at a file boundary, timed.
ExtractAndClear(d) ==
    /\ pc[d] = "extract"
    /\ Extracted(d)
    /\ \E t \in 0 .. MaxDur : duration' = [duration EXCEPT ![d] = @ + t]
    /\ pc' = [pc EXCEPT ![d] = AfterExtract]
    /\ Logged(d, <<"extract">>)
    /\ UNCHANGED <<config, queueVars, kmb, curTempFileId, binKMers, blockVars, distVars,
                   mainVars, aggVars>>

\* distributor->updateThroughput(true, devID, throughput)
UpdateThroughput(d) ==
    /\ pc[d] = "report"
    /\ LET processedKMers == tables[TableOf(d)].kMersNumber - binKMers[d] IN
         /\ throughput' = [throughput EXCEPT ![d] = Throughput(processedKMers, duration[d])]
         /\ divided' = [divided EXCEPT ![d] = Divides(duration[d])]
    /\ pc' = [pc EXCEPT ![d] = "ratio"]
    /\ Logged(d, <<"report">>)
    /\ UNCHANGED <<config, queueVars, localVars, tableVars, mainVars, aggVars>>

\* curTempFileId = kmb->getTempFileId(); distributor->getSplitRatio(...); newSize = ...
GetSplitRatio(d) ==
    /\ pc[d] = "ratio"
    /\ LET fileId == NewFileId(curTempFileId[d], kmb[d].file) IN
         /\ curTempFileId' = [curTempFileId EXCEPT ![d] = fileId]
         /\ \E r \in SplitRatio(d, fileId), est \in ApproximateUniqueKmers(fileId) :
                /\ ratio' = [ratio EXCEPT ![d] = r]
                /\ uniqueKmers' = [uniqueKmers EXCEPT ![d] = est]
                /\ newSize' = [newSize EXCEPT ![d] = NewSize(est, r)]
         /\ Logged(d, <<"ratio", fileId>>)
    /\ pc' = [pc EXCEPT ![d] = "init"]
    /\ UNCHANGED <<config, queueVars, kmb, binKMers, duration, tableVars, distVars, mainVars,
                   aggVars>>

\* Mutant: the bundle that revealed the new file is not inserted.
AfterInit_Drop == "pop"

\* where the thread goes after the block of the file boundary
AfterInit == "add"

\* table->init(newSize); binKMers = table->getKMersNumber(); duration = ms(0);
\* the block ends and its locals go out of scope.
Resize(d) ==
    /\ pc[d] = "init"
    /\ tables' = [tables EXCEPT ![TableOf(d)] = TableInit(@, newSize[d])]
    /\ binKMers' = [binKMers EXCEPT
           ![d] = WindowBaseline(@, tables[TableOf(d)].kMersNumber)]
    /\ duration' = [duration EXCEPT ![d] = 0]
    /\ uniqueKmers' = [uniqueKmers EXCEPT ![d] = 0]
    /\ ratio' = [ratio EXCEPT ![d] = NoRatio]
    /\ newSize' = [newSize EXCEPT ![d] = 0]
    /\ pc' = [pc EXCEPT ![d] = AfterInit]
    /\ Logged(d, <<"init">>)
    /\ UNCHANGED <<config, queueVars, kmb, curTempFileId, output, discarded,
                   distVars, mainVars, aggVars>>

\* table->addBundle(kmb), timed.
AddBundle(d) ==
    /\ pc[d] = "add"
    /\ tables' = [tables EXCEPT ![TableOf(d)] = TableAddBundle(@, kmb[d])]
    /\ \E t \in 0 .. MaxDur : duration' = [duration EXCEPT ![d] = @ + t]
    /\ pc' = [pc EXCEPT ![d] = "pop"]
    /\ Logged(d, <<"add", kmb[d]>>)
    /\ UNCHANGED <<config, queueVars, kmb, curTempFileId, binKMers, blockVars, output,
                   discarded, distVars, mainVars, aggVars>>

\* Mutant: the last extraction is made only if the table holds something.
FinalExtract_IfNonEmpty(d) ==
    /\ pc[d] = "final"
    /\ IF tables[TableOf(d)].counts = EmptyCounts
         THEN UNCHANGED <<tableVars, log>>
         ELSE Extracted(d) /\ Logged(d, <<"extract">>)
    /\ pc' = [pc EXCEPT ![d] = "mergeK"]
    /\ UNCHANGED <<config, queueVars, localVars, distVars, mainVars, aggVars>>

\* Mutant: the thread ends without the last extraction.
FinalExtract_None(d) ==
    /\ pc[d] = "final"
    /\ pc' = [pc EXCEPT ![d] = "mergeK"]
    /\ UNCHANGED <<config, queueVars, localVars, tableVars, distVars, log, mainVars,
                   aggVars>>

\* After the queue is empty: table->extractAndClear() (a last time).
FinalExtract(d) ==
    /\ pc[d] = "final"
    /\ Extracted(d)
    /\ pc' = [pc EXCEPT ![d] = "mergeK"]
    /\ Logged(d, <<"extract">>)
    /\ UNCHANGED <<config, queueVars, localVars, distVars, mainVars, aggVars>>

\* Mutant: the thread stores its total instead of adding it.
AtomicAdd_Store(agg, n) == n

\* std::atomic<uint64_t>::operator+=
AtomicAdd(agg, n) == agg + n

\* _kMersNumber += table->getKMersNumber()
MergeKMers(d) ==
    /\ pc[d] = "mergeK"
    /\ kMersNumberAgg' = AtomicAdd(kMersNumberAgg, tables[TableOf(d)].kMersNumber)
    /\ pc' = [pc EXCEPT ![d] = "mergeU"]
    /\ Logged(d, <<"mergeK">>)
    /\ UNCHANGED <<config, queueVars, localVars, tableVars, distVars, mainVars,
                   uKMersNumberAgg, btUKMersNumberAgg>>

\* _uKMersNumber += table->getUKMersNumber()
MergeUKMers(d) ==
    /\ pc[d] = "mergeU"
    /\ uKMersNumberAgg' = AtomicAdd(uKMersNumberAgg, tables[TableOf(d)].uKMersNumber)
    /\ pc' = [pc EXCEPT ![d] = "mergeBt"]
    /\ Logged(d, <<"mergeU">>)
    /\ UNCHANGED <<config, queueVars, localVars, tableVars, distVars, mainVars,
                   kMersNumberAgg, btUKMersNumberAgg>>

\* _btUKMersNumber += table->getUKMersNumberBelowThreshold(); delete kmb; the
\* thread ends and its locals are gone.
MergeBtUKMers(d) ==
    /\ pc[d] = "mergeBt"
    /\ btUKMersNumberAgg' =
           AtomicAdd(btUKMersNumberAgg, tables[TableOf(d)].btUKMersNumber)
    /\ kmb' = [kmb EXCEPT ![d] = NoBundle]
    /\ curTempFileId' = [curTempFileId EXCEPT ![d] = NoFile]
    /\ binKMers' = [binKMers EXCEPT ![d] = 0]
    /\ duration' = [duration EXCEPT ![d] = 0]
    /\ pc' = [pc EXCEPT ![d] = "done"]
    /\ Logged(d, <<"mergeBt">>)
    /\ UNCHANGED <<config, queueVars, blockVars, tableVars, distVars, mainVars,
                   kMersNumberAgg, uKMersNumberAgg>>

\* The steps of thread d once swapPop has failed.
AfterStream(d) ==
    \/ FinalExtract(d)
    \/ MergeKMers(d)
    \/ MergeUKMers(d)
    \/ MergeBtUKMers(d)

Hasher ==
    \/ \E d \in Threads : SwapPop(d)
    \/ \E d \in Threads : ExtractAndClear(d)
    \/ \E d \in Threads : UpdateThroughput(d)
    \/ \E d \in Threads : GetSplitRatio(d)
    \/ \E d \in Threads : Resize(d)
    \/ \E d \in Threads : AddBundle(d)
    \/ \E d \in Threads : FinalExtract(d)
    \/ \E d \in Threads : MergeKMers(d)
    \/ \E d \in Threads : MergeUKMers(d)
    \/ \E d \in Threads : MergeBtUKMers(d)

Next ==
    \/ \E d \in Threads : Push(d)
    \/ \E d \in Threads : Finalize(d)
    \/ Spawn
    \/ Join
    \/ ReadStats
    \/ Hasher

NextA ==
    \/ \E d \in Threads : PushA(d)
    \/ \E d \in Threads : FinalizeA(d)
    \/ Spawn
    \/ Join
    \/ ReadStats
    \/ Hasher

\* Either build, from construction on.
NextConfig ==
    \/ Construct
    \/ HashThrow
    \/ Next

\* The steps of thread d.
Worker(d) ==
    \/ SwapPop(d)
    \/ ExtractAndClear(d)
    \/ UpdateThroughput(d)
    \/ GetSplitRatio(d)
    \/ Resize(d)
    \/ AddBundle(d)
    \/ AfterStream(d)

\* The threads are scheduled fairly: the main thread and every hasher thread
\* take their next step when they can. Nothing is assumed of the producers.
Fairness ==
    /\ WF_vars(Spawn)
    /\ WF_vars(Join)
    /\ \A d \in Devices : WF_vars(Worker(d))

Spec == Init /\ [][Next]_vars

SpecConfig == InitConfig /\ [][NextConfig]_vars

SpecFair == InitMulti /\ [][Next]_vars /\ Fairness

SpecA == InitA /\ [][NextA]_vars

SpecMulti == InitMulti /\ [][Next]_vars

\* ------------------------------------------------------------ the calls
\* The calls of thread d on its queue and its table, in order.
TableOps(d) ==
    SelectSeq(log[d], LAMBDA e : e[1] \in {"pop", "eos", "extract", "init", "add"})

Count(d, op) == Cardinality({i \in DOMAIN log[d] : log[d][i][1] = op})

\* The bundles thread d has popped, in order.
Popped(d) ==
    LET pops == SelectSeq(log[d], LAMBDA e : e[1] = "pop")
    IN  [i \in DOMAIN pops |-> pops[i][2]]

\* Whether entry i of L is a pop of a bundle whose file id differs from the
\* tracked one.
BoundaryPop(L, i) == L[i][1] = "pop" /\ L[i][2].file # L[i][3]

At(L, i, e) == i <= Len(L) => L[i] = e

\* C1: in every thread, a popped bundle whose file id differs from the tracked
\* file id is followed by exactly one extractAndClear, then exactly one init,
\* then the insertion of that bundle, and only then by the next pop; a popped
\* bundle of the tracked file is inserted at once.
FileBoundaryProtocol ==
    \A d \in Threads :
        LET L == TableOps(d) IN
        \A i \in DOMAIN L :
            /\ BoundaryPop(L, i) =>
                  /\ At(L, i + 1, <<"extract">>)
                  /\ At(L, i + 2, <<"init">>)
                  /\ At(L, i + 3, <<"add", L[i][2]>>)
                  /\ i + 4 <= Len(L) => L[i + 4][1] \in {"pop", "eos"}
            /\ (L[i][1] = "pop" /\ ~BoundaryPop(L, i)) => At(L, i + 1, <<"add", L[i][2]>>)
            /\ L[i][1] = "add" => i > 1 /\ L[i - 1][1] \in {"pop", "init"}

\* A thread has passed a change from one file to another and inserted the bundle.
FileBoundaryWitness ==
    \E d \in Threads :
        LET L == TableOps(d) IN
        \E i \in DOMAIN L :
            /\ BoundaryPop(L, i)
            /\ L[i][3] # NoFile
            /\ i + 3 <= Len(L)

\* C2: when swapPop fails the thread extracts exactly once more, whatever the
\* table holds, then only merges its statistics and ends: after the end of
\* the stream its calls are extract, mergeK, mergeU, mergeBt and nothing else,
\* and until it is done its next step is never blocked.
FinalExtraction ==
    \A d \in Threads :
        LET L == log[d]
            tail == <<<<"eos">>, <<"extract">>, <<"mergeK">>, <<"mergeU">>, <<"mergeBt">>>>
        IN
        /\ \A i \in DOMAIN L :
               L[i] = <<"eos">> =>
                   /\ Len(L) <= i + 4
                   /\ \A j \in 1 .. 4 : At(L, i + j, tail[j + 1])
        /\ pc[d] \in {"final", "mergeK", "mergeU", "mergeBt", "done"} => Count(d, "eos") = 1
        /\ pc[d] \in {"mergeK", "mergeU", "mergeBt", "done"} =>
               \E i \in DOMAIN L : L[i] = <<"eos">> /\ i < Len(L) /\ L[i + 1] = <<"extract">>
        /\ pc[d] = "done" => Len(L) >= 5 /\ L[Len(L) - 4] = <<"eos">>
        /\ pc[d] \in {"final", "mergeK", "mergeU", "mergeBt"} => ENABLED AfterStream(d)

\* A thread that never received a bundle has made its final extraction and ended.
FinalExtractionWitness ==
    \E d \in Threads :
        /\ pc[d] = "done"
        /\ Popped(d) = << >>
        /\ Count(d, "extract") = 1

\* Number of positions of the popped stream whose file id differs from that of
\* the bundle before.
Changes(d) ==
    LET P == Popped(d) IN Cardinality({i \in 2 .. Len(P) : P[i].file # P[i - 1].file})

\* C3 as claimed: a finished thread has made one extraction per change of file
\* id between consecutive bundles, plus one at the end of the stream.
ExtractionsAsClaimed ==
    \A d \in Threads : pc[d] = "done" => Count(d, "extract") = Changes(d) + 1

\* C3: a finished thread has made one extraction per change of file id between
\* consecutive bundles, plus one for the first bundle it popped (the tracked
\* id starts at the sentinel), plus one at the end of the stream.
ExtractionCount ==
    \A d \in Threads :
        pc[d] = "done" =>
            Count(d, "extract")
                = Changes(d) + (IF Popped(d) = << >> THEN 0 ELSE 1) + 1

\* A finished thread whose stream changed from one file to another.
ExtractionCountWitness ==
    \E d \in Threads :
        /\ pc[d] = "done"
        /\ Len(Popped(d)) >= 2
        /\ Changes(d) >= 1

\* ------------------------------------------------------------- the counts
RECURSIVE SumEntries(_)
SumEntries(E) ==
    IF E = {} THEN 0
    ELSE LET e == CHOOSE x \in E : TRUE IN e[2] + SumEntries(E \ {e})

RECURSIVE SumBatches(_)
SumBatches(B) == IF B = << >> THEN 0 ELSE SumEntries(Head(B)) + SumBatches(Tail(B))

\* The bundles thread d has inserted, in order.
Added(d) ==
    LET adds == SelectSeq(log[d], LAMBDA e : e[1] = "add")
    IN  [i \in DOMAIN adds |-> adds[i][2]]

RECURSIVE SumLen(_)
SumLen(B) == IF B = << >> THEN 0 ELSE Len(Head(B).kmers) + SumLen(Tail(B))

\* Occurrences of k-mer k in the bundles of B that belong to a file of F.
RECURSIVE OccurrencesIn(_, _, _)
OccurrencesIn(B, F, k) ==
    IF B = << >> THEN 0
    ELSE (IF Head(B).file \in F THEN Occurrences(Head(B).kmers, k) ELSE 0)
             + OccurrencesIn(Tail(B), F, k)

\* C4: once a thread is done, the counts of all entries it emitted plus the
\* counts it discarded as below threshold add up to the number of k-mers it
\* inserted.
Conservation ==
    \A d \in Threads :
        pc[d] = "done" => SumBatches(output[d]) + discarded[d] = SumLen(Added(d))

\* A finished thread that resized its table between two insertions and
\* discarded what it had counted.
ConservationWitness ==
    \E d \in Threads :
        /\ pc[d] = "done"
        /\ discarded[d] >= 2
        /\ Count(d, "init") >= 2

\* The entries of all bundles thread d has emitted.
Emitted(d) == UNION {output[d][i] : i \in DOMAIN output[d]}

\* C5 as claimed: in scenario A the emitted entries are the (k-mer, count)
\* pairs whose count over the whole stream reaches the threshold.
WholeStreamEntries ==
    \A d \in Threads :
        pc[d] = "done" =>
            Emitted(d) = {<<k, OccurrencesIn(Added(d), Files, k)>> :
                            k \in {x \in KMers :
                                     OccurrencesIn(Added(d), Files, x) >= thresholdMin}}

\* C5: in scenario A there are three extractions and the emitted entries are
\* the (k-mer, count) pairs whose count within the bundles of one file reaches
\* the threshold.
PerFileEntries ==
    \A d \in Threads :
        pc[d] = "done" =>
            /\ Count(d, "extract") = 3
            /\ Emitted(d) = UNION {{<<k, OccurrencesIn(Added(d), {f}, k)>> :
                                     k \in {x \in KMers :
                                              OccurrencesIn(Added(d), {f}, x) >= thresholdMin}} :
                                   f \in Files}

\* Scenario A has run to its end with a k-mer that occurs in both files and
\* reaches the threshold in the first.
PerFileEntriesWitness ==
    \E d \in Threads :
        /\ pc[d] = "done"
        /\ Len(Added(d)) = Len(ScenarioA)
        /\ \E k \in KMers :
              /\ OccurrencesIn(Added(d), {0}, k) >= thresholdMin
              /\ OccurrencesIn(Added(d), {1}, k) > 0

\* C6: a table is reinitialised only right after its extraction: in the calls
\* of a thread on its table every init follows an extractAndClear with no
\* addBundle between, and the table holds nothing when init is called.
ResetOnlyAfterExtraction ==
    \A d \in Threads :
        LET L == SelectSeq(log[d], LAMBDA e : e[1] \in {"extract", "init", "add"}) IN
        /\ \A i \in DOMAIN L : L[i][1] = "init" => i > 1 /\ L[i - 1][1] = "extract"
        /\ pc[d] = "init" => tables[d].counts = EmptyCounts

\* A thread is about to reinitialise a table into which it had inserted.
ResetWitness ==
    \E d \in Threads : pc[d] = "init" /\ Count(d, "add") >= 1

\* C7 as claimed: a finished thread has reported one throughput per extraction.
ReportPerExtraction ==
    \A d \in Threads : pc[d] = "done" => Count(d, "report") = Count(d, "extract")

\* C7: a thread reports one throughput per extraction at a file boundary, right
\* after it, and none for the last extraction at the end of the stream: a
\* finished thread has reported one throughput less than it has extracted.
ReportPerBoundary ==
    \A d \in Threads :
        LET L == log[d] IN
        /\ \A i \in DOMAIN L :
              /\ (i > 1 /\ L[i][1] = "extract" /\ L[i - 1][1] = "pop") =>
                    At(L, i + 1, <<"report">>)
              /\ (i > 1 /\ L[i][1] = "extract" /\ L[i - 1][1] = "eos") =>
                    (i + 1 <= Len(L) => L[i + 1][1] # "report")
              /\ L[i][1] = "report" => i > 1 /\ L[i - 1][1] = "extract"
        /\ pc[d] = "done" => Count(d, "report") = Count(d, "extract") - 1

\* A finished thread that has reported a throughput.
ReportWitness ==
    \E d \in Threads : pc[d] = "done" /\ Count(d, "report") >= 1

\* ------------------------------------------------------- the negotiation
\* C8: the throughput a thread has just reported is a natural number; if the
\* window it closes accumulated no time, it is 0 and nothing was divided; a
\* division was made only by a duration that is not 0.
ZeroDurationSafety ==
    \A d \in Threads :
        /\ throughput[d] \in Nat
        /\ pc[d] = "ratio" =>
              /\ duration[d] = 0 => throughput[d] = 0 /\ ~divided[d]
              /\ divided[d] => duration[d] > 0
              /\ duration[d] > 0 =>
                    throughput[d] = (tables[d].kMersNumber - binKMers[d]) \div duration[d]

\* A thread has reported on a window in which it inserted k-mers in no time.
ZeroDurationWitness ==
    \E d \in Threads :
        /\ pc[d] = "ratio"
        /\ duration[d] = 0
        /\ tables[d].kMersNumber - binKMers[d] > 0

\* C9 as claimed: the size a thread passes to init is positive.
PositiveCapacity ==
    \A d \in Threads : pc[d] = "init" => newSize[d] > 0

\* C9: the size a thread passes to init is the estimate times the ratio,
\* truncated: a natural number that is positive exactly when the estimate
\* times the ratio is at least 1, and 0 otherwise (the thread does not clamp).
TruncatedCapacity ==
    \A d \in Threads :
        pc[d] = "init" =>
            /\ newSize[d] \in Nat
            /\ ratio[d] \in Ratios
            /\ newSize[d] * ratio[d][2] <= uniqueKmers[d] * ratio[d][1]
            /\ uniqueKmers[d] * ratio[d][1] < (newSize[d] + 1) * ratio[d][2]
            /\ newSize[d] > 0 <=> uniqueKmers[d] * ratio[d][1] >= ratio[d][2]

\* A thread is about to pass 0 to init although the estimate is positive.
TruncatedCapacityWitness ==
    \E d \in Threads : pc[d] = "init" /\ newSize[d] = 0 /\ uniqueKmers[d] > 0

\* ---------------------------------------------------------- the statistics
RECURSIVE SumOver(_, _)
SumOver(D, field) ==
    IF D = {} THEN 0
    ELSE LET d == CHOOSE x \in D : TRUE IN tables[d][field] + SumOver(D \ {d}, field)

\* C10: a thread adds each of its three totals to the aggregate counters at
\* most once, all three once it is done; after join() has returned each
\* aggregate counter is the sum of the tables' counters over all devices, and
\* every read of the accessors has returned these same values.
AggregateStatistics ==
    LET sums == <<SumOver(Threads, "kMersNumber"), SumOver(Threads, "uKMersNumber"),
                  SumOver(Threads, "btUKMersNumber")>>
    IN
    /\ \A d \in Threads :
          /\ \A m \in {"mergeK", "mergeU", "mergeBt"} :
                /\ Count(d, m) <= 1
                /\ Count(d, m) = 1 => Count(d, "eos") = 1
          /\ pc[d] = "done" <=>
                Count(d, "mergeK") + Count(d, "mergeU") + Count(d, "mergeBt") = 3
    /\ main = "joined" =>
          /\ \A d \in Threads : pc[d] = "done"
          /\ <<kMersNumberAgg, uKMersNumberAgg, btUKMersNumberAgg>> = sums
    /\ \A r \in reads : r = sums

\* The accessors have been read after join() and every device had counted k-mers,
\* some of them below the threshold.
AggregateWitness ==
    /\ main = "joined"
    /\ reads # {}
    /\ \A d \in Threads : tables[d].kMersNumber > 0
    /\ btUKMersNumberAgg > 0

\* ------------------------------------------------------------------ join
\* C11: join() returns only when every thread is done, and a thread is done
\* only after its swapPop has failed on its closed, empty input queue: while
\* join() waits for a thread whose queue is open it cannot return, the threads
\* it has passed are done, and once it has returned every queue is closed.
JoinAfterDone ==
    /\ \A d \in Threads :
          pc[d] = "done" =>
              /\ finalized[d]
              /\ kMerQueues[d] = << >>
              /\ Count(d, "eos") = 1
    /\ main = "join" =>
          /\ \A d \in Threads : d < idx => pc[d] = "done"
          /\ ~finalized[idx] => ~ENABLED Join
    /\ main = "joined" => \A d \in Threads : pc[d] = "done" /\ finalized[d]

\* join() has returned for several threads that each had bundles to count.
JoinWitness ==
    /\ main = "joined"
    /\ numThreads >= 2
    /\ \A d \in Threads : Len(Popped(d)) >= 1

\* ------------------------------------------------------------- progress
\* Every input queue is closed.
AllClosed == \A d \in Threads : finalized[d]

\* Thread d has made its final extraction, merged its statistics and ended.
FinishedAfterFinalExtract(d) ==
    /\ pc[d] = "done"
    /\ Len(log[d]) >= 5
    /\ log[d][Len(log[d]) - 4] = <<"eos">>
    /\ log[d][Len(log[d]) - 3] = <<"extract">>

\* C12: with the threads scheduled fairly, once every input queue is closed
\* every thread eventually makes its final extraction and ends, and join()
\* eventually returns.
Termination ==
    /\ AllClosed ~> (\A d \in Threads : FinishedAfterFinalExtract(d))
    /\ AllClosed ~> (main = "joined")

\* Every queue is closed, one thread has counted all the bundles and the others
\* had none, all have ended and join() has returned.
TerminationWitness ==
    /\ main = "joined"
    /\ AllClosed
    /\ \E d \in Threads :
          /\ Len(Popped(d)) = MaxBatches
          /\ \A e \in Threads : e # d => FinishedAfterFinalExtract(e) /\ Popped(e) = << >>

\* Thread d is running and cannot take a step.
Blocked(d) == pc[d] \notin {"null", "done"} /\ ~ENABLED Worker(d)

\* C13: with the threads scheduled fairly, a thread whose own input queue is
\* closed eventually merges its statistics and ends, whatever happens to the
\* queues of the other devices; and a thread is blocked only in swapPop on its
\* own queue, empty and open.
IndependentProgress ==
    /\ \A d \in Devices :
          (d \in Threads /\ finalized[d])
              ~> (pc[d] = "done" /\ Count(d, "mergeK") + Count(d, "mergeU")
                                      + Count(d, "mergeBt") = 3)
    /\ [](\A d \in Threads :
             Blocked(d) => pc[d] = "pop" /\ kMerQueues[d] = << >> /\ ~finalized[d])

\* A thread has counted its bundles and ended while another thread waits on its
\* queue, which was never fed and is still open.
IndependentProgressWitness ==
    \E d, e \in Threads :
        /\ pc[d] = "done"
        /\ Len(Popped(d)) >= 1
        /\ Blocked(e)
        /\ log[e] = << >>
        /\ ~finalized[e]

\* ------------------------------------------------------------- ownership
\* A step of thread d and of no other thread.
StepOf(d) == pc'[d] # pc[d] /\ \A e \in Devices \ {d} : pc'[e] = pc[e]

\* A bundle is taken from the head of input queue q.
PoppedFrom(q) == kMerQueues[q] # << >> /\ kMerQueues'[q] = Tail(kMerQueues[q])

\* What a step may do: start thread idx in hash(); pop from queue q as thread q;
\* change table t, or push its results, as thread t.
OwnSteps ==
    /\ \A d \in Devices :
          /\ (pc[d] = "null" /\ pc'[d] # "null") =>
                 main = "hash" /\ idx = d /\ d \in Threads /\ pc'[d] = "pop"
          /\ pc[d] # "null" => pc'[d] # "null"
    /\ \A q \in Devices : PoppedFrom(q) => pc[q] = "pop" /\ StepOf(q)
    /\ \A t \in Devices :
          tables'[t] # tables[t] =>
              /\ pc[t] \in {"extract", "init", "add", "final"}
              /\ StepOf(t)
    /\ \A t \in Devices :
          output'[t] # output[t] => pc[t] \in {"extract", "final"} /\ StepOf(t)

\* C14: hash() starts one thread per device index, each once, and no others;
\* whenever a bundle leaves input queue i it is thread i that pops it, and
\* whenever table i changes it is thread i that extracts from it, initialises
\* it or inserts into it.
ExclusiveOwnership ==
    /\ [](main \in {"join", "joined"} =>
              \A d \in Devices : pc[d] # "null" <=> d \in Threads)
    /\ [][OwnSteps]_vars

\* Every one of several threads holds a bundle popped from its own queue and is
\* about to insert it into its own table.
ExclusiveOwnershipWitness ==
    /\ numThreads >= 2
    /\ \A d \in Threads : pc[d] = "add" /\ kmb[d] \in Bundles

\* --------------------------------------------------------- configuration
\* The build has no GPU support, or the machine lacks a device asked for.
Misconfigured == ~gpu \/ numThreads > hardware

\* No thread was started and nothing a thread does has happened.
NothingDone ==
    /\ \A d \in Devices :
          /\ pc[d] = "null"
          /\ log[d] = << >>
          /\ tables[d] = NewTable
          /\ output[d] = << >>
          /\ throughput[d] = 0
    /\ kMersNumberAgg = 0
    /\ uKMersNumberAgg = 0
    /\ btUKMersNumberAgg = 0

IsPrefix(a, b) == Len(a) <= Len(b) /\ \A i \in DOMAIN a : a[i] = b[i]

\* C16: the bundles a thread has inserted are the bundles it has popped, in
\* the same order, each once: all of them when the thread is at swapPop or
\* past its loop, all but the last, which it holds, between a pop and the
\* insertion, the handling of a file boundary included.
InsertedOnceInOrder ==
    \A d \in Threads :
        LET A == Added(d)
            P == Popped(d)
        IN
        /\ IsPrefix(A, P)
        /\ pc[d] \in {"extract", "report", "ratio", "init", "add"} =>
               Len(P) = Len(A) + 1 /\ kmb[d] = P[Len(P)]
        /\ pc[d] \in {"null", "pop", "final", "mergeK", "mergeU", "mergeBt", "done"} =>
               A = P

\* A thread is back at swapPop after inserting two bundles of different files.
InsertedWitness ==
    \E d \in Threads :
        /\ pc[d] = "pop"
        /\ Len(Added(d)) = 2
        /\ Added(d)[1].file # Added(d)[2].file

\* C17: after a pop that reveals another file the calls of the thread are, in
\* this order, extractAndClear, updateThroughput, getSplitRatio for the file
\* id of the popped bundle, init; and the size passed to init is the estimate
\* of that file times the ratio, truncated.
BoundaryOrder ==
    \A d \in Threads :
        LET L == log[d] IN
        /\ \A i \in DOMAIN L :
              /\ BoundaryPop(L, i) =>
                    /\ At(L, i + 1, <<"extract">>)
                    /\ At(L, i + 2, <<"report">>)
                    /\ At(L, i + 3, <<"ratio", L[i][2].file>>)
                    /\ At(L, i + 4, <<"init">>)
              /\ L[i][1] = "ratio" => i > 3 /\ L[i - 1] = <<"report">> /\ BoundaryPop(L, i - 3)
              /\ L[i][1] = "init" => i > 1 /\ L[i - 1][1] = "ratio"
        /\ pc[d] = "init" =>
              /\ curTempFileId[d] = kmb[d].file
              /\ ratio[d] \in SplitRatio(d, kmb[d].file)
              /\ uniqueKmers[d] \in ApproximateUniqueKmers(kmb[d].file)
              /\ newSize[d] = (uniqueKmers[d] * ratio[d][1]) \div ratio[d][2]

\* A thread is about to initialise its table for a second file, with a size
\* that is positive.
BoundaryOrderWitness ==
    \E d \in Threads :
        /\ pc[d] = "init"
        /\ Count(d, "report") = 2
        /\ log[d][Len(log[d])] = <<"ratio", kmb[d].file>>
        /\ newSize[d] > 0

\* ------------------------------------------------- the measurement window
\* Position of the last call of op in the log of thread d, 0 if there is none.
LastCall(d, op) ==
    LET I == {i \in DOMAIN log[d] : log[d][i][1] = op}
    IN  IF I = {} THEN 0 ELSE CHOOSE i \in I : \A j \in I : j <= i

\* The calls of thread d since its last init.
SinceInit(d) == SubSeq(log[d], LastCall(d, "init") + 1, Len(log[d]))

\* Number of k-mers the insertions among the calls S have inserted.
RECURSIVE InsertedBy(_)
InsertedBy(S) ==
    IF S = << >> THEN 0
    ELSE (IF Head(S)[1] = "add" THEN Len(Head(S)[2].kmers) ELSE 0) + InsertedBy(Tail(S))

\* Number of extractions and insertions among the calls S.
TimedIn(S) == Cardinality({i \in DOMAIN S : S[i][1] \in {"extract", "add"}})

\* C18: right after an init the window is reset: the baseline is the table's
\* total and no time has elapsed. At any time, so at the throughput report
\* too, the table's total minus the baseline is the number of k-mers inserted
\* since the last init, and the elapsed time is that of the extractions and
\* insertions made since.
MeasurementWindow ==
    \A d \in Threads :
        LET S == SinceInit(d) IN
        /\ (log[d] # << >> /\ log[d][Len(log[d])] = <<"init">>) =>
               duration[d] = 0 /\ binKMers[d] = tables[d].kMersNumber
        /\ pc[d] # "done" => tables[d].kMersNumber - binKMers[d] = InsertedBy(S)
        /\ duration[d] \in 0 .. (MaxDur * TimedIn(S))

\* A thread has inserted k-mers before and after an init: those before it are
\* in the baseline.
MeasurementWindowWitness ==
    \E d \in Threads :
        /\ pc[d] = "pop"
        /\ binKMers[d] >= 1
        /\ tables[d].kMersNumber - binKMers[d] >= 1

\* C19: a bundle is inserted only with the tracked file id equal to its file
\* id, a temp file's, and after an init whose size was computed for that file:
\* the last getSplitRatio before the insertion was made for the bundle's file
\* and was followed by an init; so the table is initialised before the first
\* insertion.
TrackedFile ==
    \A d \in Threads :
        LET L == log[d] IN
        /\ pc[d] = "add" =>
              /\ curTempFileId[d] = kmb[d].file
              /\ curTempFileId[d] \in Files
        /\ \A i \in DOMAIN L :
              L[i][1] = "add" =>
                  \E j \in 1 .. (i - 2) :
                      /\ L[j] = <<"ratio", L[i][2].file>>
                      /\ L[j + 1] = <<"init">>
                      /\ \A k \in (j + 2) .. (i - 1) : L[k][1] \notin {"ratio", "init"}

\* A thread is about to insert a second bundle of the file it tracks, without
\* another init.
TrackedFileWitness ==
    \E d \in Threads :
        /\ pc[d] = "add"
        /\ Count(d, "pop") = 2
        /\ Count(d, "init") = 1

\* C20: the first bundle a thread pops is a file boundary, the tracked id
\* being the sentinel: before the first insertion the thread extracts the
\* empty table, reports a throughput of 0 and then asks for the split ratio of
\* the bundle's file; the throughput stays 0 until the second report.
FirstBoundary ==
    \A d \in Threads :
        LET L == log[d] IN
        /\ (L # << >> /\ L[1][1] = "pop") =>
              /\ L[1][3] = NoFile
              /\ BoundaryPop(L, 1)
              /\ At(L, 2, <<"extract">>)
              /\ At(L, 3, <<"report">>)
              /\ At(L, 4, <<"ratio", L[1][2].file>>)
              /\ At(L, 5, <<"init">>)
              /\ At(L, 6, <<"add", L[1][2]>>)
              /\ Len(L) >= 2 => output[d][1] = {}
        /\ \A i \in DOMAIN L : L[i][1] = "add" => i >= 6
        /\ pc[d] = "report" /\ Count(d, "report") = 0 =>
              tables[d].kMersNumber = 0 /\ binKMers[d] = 0
        /\ Count(d, "report") = 1 => throughput[d] = 0

\* A thread has made its first report on an extraction that took time, and has
\* inserted nothing yet.
FirstBoundaryWitness ==
    \E d \in Threads :
        /\ pc[d] = "ratio"
        /\ Count(d, "report") = 1
        /\ Count(d, "add") = 0
        /\ duration[d] > 0

====
